---- MODULE Spec2Model ----
(***************************************************************************)
(* A model of the MockDai ERC-20 style token contract (src/lib.rs).        *)
(*                                                                         *)
(* The contract state is the three storage fields of `MockDai`.  The two   *)
(* `Mapping`s are partial functions: a key that was never inserted is not  *)
(* in the DOMAIN, and the getters read it as 0 (`unwrap_or_default`).      *)
(* Every call of `transfer`, `approve` and `transfer_from` is one action.  *)
(* `last` records the call that produced the current state (who called,    *)
(* with which arguments, what it returned and which events it emitted) and *)
(* `pre_balances` / `pre_allowances` hold the storage as it was when that  *)
(* call was entered, so that the effect of one call can be stated as a     *)
(* predicate on one state.  `recipients`, `granted` and `spent` keep the   *)
(* history that the claims about defaults and delegated spending refer to. *)
(***************************************************************************)
EXTENDS Integers, FiniteSets, Sequences, TLC

\* ------------------------------------------------------------------ bounds

\* Largest value of the `Balance` type in the model (u128::MAX in the build).
MaxBalance == 2

\* Number of calls made on the contract after its construction.
MaxCalls == 2

\* ------------------------------------------------------------------- types

\* The accounts that call the contract: the one that deploys it (the caller of
\* every call in the unit tests) and the two other accounts of the unit tests.
Deployer == "deployer"
Accounts == {Deployer, "bob", "alice"}

\* `Balance`: an unsigned integer of fixed width.
Balance == 0..MaxBalance

\* `Option::None` of an account (the `from` of the issuance event), and the
\* filler of the fields of `last` that a call does not have.
None == "None"

\* `Result<()>` values.  A panic is not a `Result`: it is what an overflowing
\* `+` or `-` does in a build with overflow checks.
Ok == "Ok"
InsufficientBalance == "Err(InsufficientBalance)"
InsufficientAllowance == "Err(InsufficientAllowance)"
Panic == "panic"

VARIABLES
    total_supply,    \* MockDai.total_supply
    balances,        \* MockDai.balances   : Mapping<AccountId, Balance>
    allowances,      \* MockDai.allowances : Mapping<(AccountId, AccountId), Balance>
    minter,          \* the caller of the constructor
    initial_supply,  \* the argument of the constructor
    last,            \* the call that led to this state
    pre_total_supply,\* `total_supply` when the last call was entered
    pre_balances,    \* `balances` when the last call was entered
    pre_allowances,  \* `allowances` when the last call was entered
    recipients,      \* the `to` of every successful transfer / transfer_from
    granted,         \* (owner, spender) -> amount of the owner's last approve
    spent,           \* (owner, spender) -> sum of the amounts of the spender's
                     \* successful transfer_from calls since that approve
    ncalls           \* number of calls made since construction

vars == <<total_supply, balances, allowances, minter, initial_supply, last,
          pre_total_supply, pre_balances, pre_allowances, recipients, granted,
          spent, ncalls>>

\* ----------------------------------------------------------------- storage

\* Mapping::default(): no entry.
EmptyMapping == [k \in {} |-> 0]

\* Mapping::get(key).unwrap_or_default()
get(mapping, key) == IF key \in DOMAIN mapping THEN mapping[key] ELSE 0

\* Mapping::insert(key, &value)
insert(mapping, key, value) ==
    [k \in DOMAIN mapping \cup {key} |-> IF k = key THEN value ELSE mapping[k]]

\* The Transfer and Approval events.
Transfer(from, to, value) ==
    [event |-> "Transfer", from |-> from, to |-> to, value |-> value]

Approval(owner, spender, amount) ==
    [event |-> "Approval", owner |-> owner, spender |-> spender, amount |-> amount]

\* ----------------------------------------------------------------- queries

balance_of(account) == get(balances, account)

allowance(owner, spender) == get(allowances, <<owner, spender>>)

\* The same getters on the storage as the last call found it.
pre_balance_of(account) == get(pre_balances, account)

pre_allowance(owner, spender) == get(pre_allowances, <<owner, spender>>)

\* ------------------------------------------------------------ construction

\* The record of the construction: who constructed the contract and with
\* which argument.  No call has been made yet.
Constructed(caller, supply) ==
    /\ minter = caller
    /\ initial_supply = supply
    /\ last = [op |-> "new", caller |-> caller, from |-> None, to |-> None,
               spender |-> None, amount |-> supply, result |-> Ok,
               events |-> <<Transfer(None, caller, supply)>>, arith |-> {}]
    /\ pre_total_supply = 0
    /\ pre_balances = EmptyMapping
    /\ pre_allowances = EmptyMapping
    /\ recipients = {}
    /\ granted = EmptyMapping
    /\ spent = EmptyMapping
    /\ ncalls = 0

\* new, with the total_supply field left at its default.
new_default_total_supply(caller, supply) ==
    /\ total_supply = 0
    /\ balances = insert(EmptyMapping, caller, supply)
    /\ allowances = EmptyMapping
    /\ Constructed(caller, supply)

\* new, without the mint to the caller.
new_without_mint(caller, supply) ==
    /\ total_supply = supply
    /\ balances = EmptyMapping
    /\ allowances = EmptyMapping
    /\ Constructed(caller, supply)

\* pub fn new(total_supply: Balance) -> Self, called by `caller`.
new(caller, supply) ==
    /\ total_supply = supply
    /\ balances = insert(EmptyMapping, caller, supply)
    /\ allowances = EmptyMapping
    /\ Constructed(caller, supply)

\* The contract is constructed by its deployer, with any total supply.
Init == \E supply \in Balance : new(Deployer, supply)

\* -------------------------------------------------------------- operations

\* An arithmetic expression of the source that a call evaluated, with its
\* mathematical value (before any wrapping to the Balance type).
Evaluated(expr, value) == [expr |-> expr, value |-> value]

\* The record kept of every call: its caller (supplied by the environment),
\* its arguments, its return value, its events and the arithmetic it
\* evaluated, together with the storage the call started from and the history
\* of recipients, approvals and delegated spending.  A call is possible while
\* ncalls < MaxCalls.
Called(op, caller, from, to, spender, amount, result, events, arith) ==
    /\ ncalls' = ncalls + 1
    /\ last' = [op |-> op, caller |-> caller, from |-> from, to |-> to,
                spender |-> spender, amount |-> amount, result |-> result,
                events |-> events, arith |-> arith]
    /\ pre_total_supply' = total_supply
    /\ pre_balances' = balances
    /\ pre_allowances' = allowances
    /\ recipients' = IF op \in {"transfer", "transfer_from"} /\ result = Ok
                     THEN recipients \cup {to}
                     ELSE recipients
    /\ granted' = IF op = "approve" /\ result = Ok
                  THEN insert(granted, <<caller, spender>>, amount)
                  ELSE granted
    /\ spent' = IF op = "approve" /\ result = Ok
                THEN insert(spent, <<caller, spender>>, 0)
                ELSE IF op = "transfer_from" /\ result = Ok
                THEN insert(spent, <<from, caller>>,
                            get(spent, <<from, caller>>) + amount)
                ELSE spent
    /\ UNCHANGED <<minter, initial_supply>>

\* The outcomes `outcomes` of a computation that has evaluated `e` as well.
evaluating(e, outcomes) ==
    {[r EXCEPT !.arith = @ \cup {e}] : r \in outcomes}

\* The outcomes of `to_balance + amount`, credited to `to` on the balances
\* `debited`; `bals` are the balances before the debit.
credit_outcomes(bals, debited, to, to_balance, amount) ==
    evaluating(Evaluated("to_balance + amount", to_balance + amount),
        IF to_balance + amount > MaxBalance
        THEN {[result |-> Ok,
               balances |-> insert(debited, to,
                                   (to_balance + amount) % (MaxBalance + 1)),
               arith |-> {}],
              [result |-> Panic, balances |-> debited, arith |-> {}],
              [result |-> Panic, balances |-> bals, arith |-> {}]}
        ELSE {[result |-> Ok,
               balances |-> insert(debited, to, to_balance + amount),
               arith |-> {}]})

\* transfer_from_to, without the write of the sender's new balance.
transfer_from_to_without_debit(bals, from, to, amount) ==
    LET sender_balance == get(bals, from) IN
    IF sender_balance < amount
    THEN {[result |-> InsufficientBalance, balances |-> bals, arith |-> {}]}
    ELSE credit_outcomes(bals, bals, to, get(bals, to), amount)

\* transfer_from_to, with the recipient's balance read before the debit.
transfer_from_to_stale_to_balance(bals, from, to, amount) ==
    LET sender_balance == get(bals, from)
        to_balance == get(bals, to)
    IN  IF sender_balance < amount
        THEN {[result |-> InsufficientBalance, balances |-> bals, arith |-> {}]}
        ELSE evaluating(
                 Evaluated("sender_balance - amount", sender_balance - amount),
                 credit_outcomes(bals,
                                 insert(bals, from, sender_balance - amount),
                                 to, to_balance, amount))

\* transfer_from_to, with `<=` for `<` in the balance check.
transfer_from_to_strict_check(bals, from, to, amount) ==
    LET sender_balance == get(bals, from) IN
    IF sender_balance <= amount
    THEN {[result |-> InsufficientBalance, balances |-> bals, arith |-> {}]}
    ELSE LET debited == insert(bals, from, sender_balance - amount)
         IN  evaluating(
                 Evaluated("sender_balance - amount", sender_balance - amount),
                 credit_outcomes(bals, debited, to, get(debited, to), amount))

\* transfer_from_to, with the recipient's balance set to `amount`.
transfer_from_to_overwriting_credit(bals, from, to, amount) ==
    LET sender_balance == get(bals, from) IN
    IF sender_balance < amount
    THEN {[result |-> InsufficientBalance, balances |-> bals, arith |-> {}]}
    ELSE LET debited == insert(bals, from, sender_balance - amount)
         IN  evaluating(
                 Evaluated("sender_balance - amount", sender_balance - amount),
                 credit_outcomes(bals, debited, to, 0, amount))

\* transfer_from_to, without the balance check.
transfer_from_to_without_check(bals, from, to, amount) ==
    LET sender_balance == get(bals, from)
        debited == insert(bals, from, sender_balance - amount)
        to_balance == get(debited, to)
    IN  evaluating(
            Evaluated("sender_balance - amount", sender_balance - amount),
            credit_outcomes(bals, debited, to, to_balance, amount))

\* fn transfer_from_to(&mut self, from, to, amount) -> Result<()>, run on the
\* balances `bals`: the set of its possible outcomes, each the value returned
\* and the balances left behind.  There is one outcome unless `to_balance +
\* amount` exceeds the Balance type: then the build decides (wrap around, or
\* panic with the debit of `from` either written or rolled back by the host).
transfer_from_to(bals, from, to, amount) ==
    LET sender_balance == get(bals, from) IN
    IF sender_balance < amount
    THEN {[result |-> InsufficientBalance, balances |-> bals, arith |-> {}]}
    ELSE LET debited == insert(bals, from, sender_balance - amount)
             to_balance == get(debited, to)
         IN  evaluating(
                 Evaluated("sender_balance - amount", sender_balance - amount),
                 credit_outcomes(bals, debited, to, to_balance, amount))

\* pub fn transfer(&mut self, to, amount) -> Result<()>, called by `caller`.
transfer(caller, to, amount) ==
    LET sender == caller IN
    /\ ncalls < MaxCalls
    /\ \E r \in transfer_from_to(balances, sender, to, amount) :
          /\ balances' = r.balances
          /\ UNCHANGED <<total_supply, allowances>>
          /\ Called("transfer", caller, None, to, None, amount, r.result, <<>>,
                   r.arith)

\* approve, adding `amount` to the allowance already granted.
approve_additive(caller, spender, amount) ==
    LET owner == caller IN
    /\ ncalls < MaxCalls
    /\ allowances' = insert(allowances, <<owner, spender>>,
                            allowance(owner, spender) + amount)
    /\ UNCHANGED <<total_supply, balances>>
    /\ Called("approve", caller, None, None, spender, amount, Ok,
              <<Approval(owner, spender, amount)>>, {})

\* approve, with owner and spender exchanged in the event.
approve_event_swapped(caller, spender, amount) ==
    LET owner == caller IN
    /\ ncalls < MaxCalls
    /\ allowances' = insert(allowances, <<owner, spender>>, amount)
    /\ UNCHANGED <<total_supply, balances>>
    /\ Called("approve", caller, None, None, spender, amount, Ok,
              <<Approval(spender, owner, amount)>>, {})

\* approve, returning Err(InsufficientBalance) without effect when the amount
\* exceeds the caller's balance.
approve_checking_balance(caller, spender, amount) ==
    LET owner == caller IN
    /\ ncalls < MaxCalls
    /\ IF balance_of(owner) < amount
       THEN /\ UNCHANGED <<total_supply, balances, allowances>>
            /\ Called("approve", caller, None, None, spender, amount,
                      InsufficientBalance, <<>>, {})
       ELSE /\ allowances' = insert(allowances, <<owner, spender>>, amount)
            /\ UNCHANGED <<total_supply, balances>>
            /\ Called("approve", caller, None, None, spender, amount, Ok,
                      <<Approval(owner, spender, amount)>>, {})

\* pub fn approve(&mut self, spender, amount) -> Result<()>, called by `caller`.
approve(caller, spender, amount) ==
    LET owner == caller IN
    /\ ncalls < MaxCalls
    /\ allowances' = insert(allowances, <<owner, spender>>, amount)
    /\ UNCHANGED <<total_supply, balances>>
    /\ Called("approve", caller, None, None, spender, amount, Ok,
              <<Approval(owner, spender, amount)>>, {})

\* transfer_from, with the allowance written before the transfer is tried.
transfer_from_allowance_first(caller, from, to, amount) ==
    LET msg_sender == caller
        allowance_ == allowance(from, msg_sender)
    IN  /\ ncalls < MaxCalls
        /\ IF allowance_ < amount
           THEN /\ UNCHANGED <<total_supply, balances, allowances>>
                /\ Called("transfer_from", caller, from, to, None, amount,
                          InsufficientAllowance, <<>>, {})
           ELSE \E r \in transfer_from_to(balances, from, to, amount) :
                   /\ balances' = r.balances
                   /\ UNCHANGED total_supply
                   /\ allowances' = insert(allowances, <<from, msg_sender>>,
                                           allowance_ - amount)
                   /\ Called("transfer_from", caller, from, to, None, amount,
                             r.result, <<>>,
                             r.arith \cup {Evaluated("allowance - amount",
                                                     allowance_ - amount)})

\* transfer_from, with the allowance checked after the transfer.
transfer_from_check_after(caller, from, to, amount) ==
    LET msg_sender == caller
        allowance_ == allowance(from, msg_sender)
    IN  /\ ncalls < MaxCalls
        /\ \E r \in transfer_from_to(balances, from, to, amount) :
              /\ balances' = r.balances
              /\ UNCHANGED total_supply
              /\ IF r.result # Ok
                 THEN /\ UNCHANGED allowances
                      /\ Called("transfer_from", caller, from, to, None,
                                amount, r.result, <<>>, r.arith)
                 ELSE IF allowance_ < amount
                 THEN /\ UNCHANGED allowances
                      /\ Called("transfer_from", caller, from, to, None,
                                amount, InsufficientAllowance, <<>>, r.arith)
                 ELSE /\ allowances' = insert(allowances,
                                              <<from, msg_sender>>,
                                              allowance_ - amount)
                      /\ Called("transfer_from", caller, from, to, None,
                                amount, Ok, <<>>,
                                r.arith \cup {Evaluated("allowance - amount",
                                                        allowance_ - amount)})

\* transfer_from, with the allowance written under the key (caller, from).
transfer_from_swapped_key(caller, from, to, amount) ==
    LET msg_sender == caller
        allowance_ == allowance(from, msg_sender)
    IN  /\ ncalls < MaxCalls
        /\ IF allowance_ < amount
           THEN /\ UNCHANGED <<total_supply, balances, allowances>>
                /\ Called("transfer_from", caller, from, to, None, amount,
                          InsufficientAllowance, <<>>, {})
           ELSE \E r \in transfer_from_to(balances, from, to, amount) :
                   /\ balances' = r.balances
                   /\ UNCHANGED total_supply
                   /\ IF r.result = Ok
                      THEN allowances' = insert(allowances,
                                                <<msg_sender, from>>,
                                                allowance_ - amount)
                      ELSE UNCHANGED allowances
                   /\ Called("transfer_from", caller, from, to, None, amount,
                             r.result, <<>>,
                             IF r.result = Ok
                             THEN r.arith \cup
                                  {Evaluated("allowance - amount",
                                             allowance_ - amount)}
                             ELSE r.arith)

\* transfer_from, with the allowance looked up under (caller, from).
transfer_from_swapped_lookup(caller, from, to, amount) ==
    LET msg_sender == caller
        allowance_ == allowance(msg_sender, from)
    IN  /\ ncalls < MaxCalls
        /\ IF allowance_ < amount
           THEN /\ UNCHANGED <<total_supply, balances, allowances>>
                /\ Called("transfer_from", caller, from, to, None, amount,
                          InsufficientAllowance, <<>>, {})
           ELSE \E r \in transfer_from_to(balances, from, to, amount) :
                   /\ balances' = r.balances
                   /\ UNCHANGED total_supply
                   /\ IF r.result = Ok
                      THEN allowances' = insert(allowances,
                                                <<from, msg_sender>>,
                                                allowance_ - amount)
                      ELSE UNCHANGED allowances
                   /\ Called("transfer_from", caller, from, to, None, amount,
                             r.result, <<>>,
                             IF r.result = Ok
                             THEN r.arith \cup
                                  {Evaluated("allowance - amount",
                                             allowance_ - amount)}
                             ELSE r.arith)

\* transfer_from, without the write of the reduced allowance.
transfer_from_without_decrement(caller, from, to, amount) ==
    LET msg_sender == caller
        allowance_ == allowance(from, msg_sender)
    IN  /\ ncalls < MaxCalls
        /\ IF allowance_ < amount
           THEN /\ UNCHANGED <<total_supply, balances, allowances>>
                /\ Called("transfer_from", caller, from, to, None, amount,
                          InsufficientAllowance, <<>>, {})
           ELSE \E r \in transfer_from_to(balances, from, to, amount) :
                   /\ balances' = r.balances
                   /\ UNCHANGED <<total_supply, allowances>>
                   /\ Called("transfer_from", caller, from, to, None, amount,
                             r.result, <<>>, r.arith)

\* pub fn transfer_from(&mut self, from, to, amount) -> Result<()>, called by
\* `caller`.
transfer_from(caller, from, to, amount) ==
    LET msg_sender == caller
        allowance_ == allowance(from, msg_sender)
    IN  /\ ncalls < MaxCalls
        /\ IF allowance_ < amount
           THEN /\ UNCHANGED <<total_supply, balances, allowances>>
                /\ Called("transfer_from", caller, from, to, None, amount,
                          InsufficientAllowance, <<>>, {})
           ELSE \E r \in transfer_from_to(balances, from, to, amount) :
                   /\ balances' = r.balances
                   /\ UNCHANGED total_supply
                   /\ IF r.result = Ok
                      THEN allowances' = insert(allowances,
                                                <<from, msg_sender>>,
                                                allowance_ - amount)
                      ELSE UNCHANGED allowances
                   /\ Called("transfer_from", caller, from, to, None, amount,
                             r.result, <<>>,
                             IF r.result = Ok
                             THEN r.arith \cup
                                  {Evaluated("allowance - amount",
                                             allowance_ - amount)}
                             ELSE r.arith)

Next ==
    \/ \E caller \in Accounts, to \in Accounts, amount \in Balance :
          transfer(caller, to, amount)
    \/ \E caller \in Accounts, spender \in Accounts, amount \in Balance :
          approve(caller, spender, amount)
    \/ \E caller \in Accounts, from \in Accounts, to \in Accounts,
          amount \in Balance :
          transfer_from(caller, from, to, amount)

Spec == Init /\ [][Next]_vars

\* ------------------------------------------------------------- type checks

RECURSIVE SumOver(_, _)
\* The sum of f[x] over the finite set S.
SumOver(f, S) ==
    IF S = {} THEN 0
    ELSE LET x == CHOOSE y \in S : TRUE IN f[x] + SumOver(f, S \ {x})

\* The sum of balance_of(a) over all accounts.
SumOfBalances == SumOver([a \in Accounts |-> balance_of(a)], Accounts)

TypeOK ==
    /\ total_supply \in Balance
    /\ DOMAIN balances \subseteq Accounts
    /\ \A a \in DOMAIN balances : balances[a] \in Balance
    /\ DOMAIN allowances \subseteq Accounts \X Accounts
    /\ \A p \in DOMAIN allowances : allowances[p] \in Balance
    /\ minter \in Accounts
    /\ initial_supply \in Balance
    /\ recipients \subseteq Accounts
    /\ DOMAIN granted \subseteq Accounts \X Accounts
    /\ DOMAIN spent \subseteq Accounts \X Accounts
    /\ ncalls \in 0..MaxCalls

\* ------------------------------------------------------------------ claims

\* What the last call left as it found it.
BalancesUnchanged == \A a \in Accounts : balance_of(a) = pre_balance_of(a)

StorageUnchanged ==
    /\ balances = pre_balances
    /\ allowances = pre_allowances
    /\ total_supply = pre_total_supply

\* C1. Conservation: in every state reachable from new(S) by any calls of
\* transfer, approve and transfer_from, successful or failed, the sum of
\* balance_of(a) over all accounts equals total_supply().
C1_Conservation == SumOfBalances = total_supply

\* C1's case: value has moved between two different accounts, by a delegated
\* transfer, and the sum is still the supply.
C1_Witness ==
    /\ last.op = "transfer_from"
    /\ last.result = Ok
    /\ last.amount > 0
    /\ last.from # last.to
    /\ balance_of(last.to) > 0
    /\ SumOfBalances = total_supply

\* C2. transfer(to, amount) by caller c returns Err(InsufficientBalance)
\* exactly when balance_of(c) < amount, and Ok otherwise (amount = 0 and
\* amount = balance_of(c) included); on that error every balance, every
\* allowance and total_supply are as they were before the call.
C2_TransferInsufficientBalance ==
    last.op = "transfer" =>
        /\ (last.result = InsufficientBalance)
               <=> (pre_balance_of(last.caller) < last.amount)
        /\ last.result # InsufficientBalance => last.result = Ok
        /\ last.result = InsufficientBalance => StorageUnchanged

\* C2's case: a transfer of more than the caller holds, by a caller that holds
\* something, has failed.
C2_Witness ==
    /\ last.op = "transfer"
    /\ last.result = InsufficientBalance
    /\ pre_balance_of(last.caller) > 0
    /\ last.caller # last.to

\* C3. transfer_from(from, to, amount) called by c with allowance(from, c) >=
\* amount but balance_of(from) < amount returns Err(InsufficientBalance) and
\* does not decrement the allowance: balances, allowances and total_supply
\* are as they were before the call.
C3_TransferFromInsufficientBalance ==
    (/\ last.op = "transfer_from"
     /\ pre_allowance(last.from, last.caller) >= last.amount
     /\ pre_balance_of(last.from) < last.amount)
    => (last.result = InsufficientBalance /\ StorageUnchanged)

\* C3's case: a delegated transfer within the allowance but beyond the owner's
\* balance has been tried.
C3_Witness ==
    /\ last.op = "transfer_from"
    /\ pre_allowance(last.from, last.caller) >= last.amount
    /\ pre_balance_of(last.from) < last.amount
    /\ last.caller # last.from
    /\ allowance(last.from, last.caller) > 0

\* C4. transfer_from(from, to, amount) called by c with allowance(from, c) <
\* amount returns Err(InsufficientAllowance) however large balance_of(from)
\* is, and leaves every balance and every allowance unchanged.
C4_TransferFromInsufficientAllowance ==
    (/\ last.op = "transfer_from"
     /\ pre_allowance(last.from, last.caller) < last.amount)
    => (last.result = InsufficientAllowance /\ StorageUnchanged)

\* C4's case: a delegated transfer beyond a non-zero allowance, which the
\* owner's balance would have covered, has been tried.
C4_Witness ==
    /\ last.op = "transfer_from"
    /\ pre_allowance(last.from, last.caller) < last.amount
    /\ pre_allowance(last.from, last.caller) > 0
    /\ pre_balance_of(last.from) >= last.amount
    /\ last.from # last.to

\* C5. A successful transfer_from(from, to, amount) called by c decreases
\* allowance(from, c) by exactly amount (never below zero), decreases
\* balance_of(from) by amount and increases balance_of(to) by amount when
\* from # to, and leaves balance_of(from) unchanged when from = to, for every
\* aliasing of c, from and to.
C5_TransferFromEffect ==
    (last.op = "transfer_from" /\ last.result = Ok) =>
        /\ allowance(last.from, last.caller)
              = pre_allowance(last.from, last.caller) - last.amount
        /\ allowance(last.from, last.caller) >= 0
        /\ last.from # last.to =>
              /\ balance_of(last.from)
                    = pre_balance_of(last.from) - last.amount
              /\ balance_of(last.to) = pre_balance_of(last.to) + last.amount
        /\ last.from = last.to =>
              balance_of(last.from) = pre_balance_of(last.from)

\* C5's case: a spender has moved a positive amount from an owner to a third
\* account and keeps a rest of the allowance.
C5_Witness ==
    /\ last.op = "transfer_from"
    /\ last.result = Ok
    /\ last.amount > 0
    /\ Cardinality({last.caller, last.from, last.to}) = 3
    /\ allowance(last.from, last.caller) > 0

\* C6. A successful transfer(to, amount) by caller c with c # to decreases
\* balance_of(c) by exactly amount and increases balance_of(to) by exactly
\* amount, and leaves the balance of every third account, every allowance
\* and total_supply unchanged.
C6_TransferEffect ==
    (last.op = "transfer" /\ last.result = Ok /\ last.caller # last.to) =>
        /\ balance_of(last.caller) = pre_balance_of(last.caller) - last.amount
        /\ balance_of(last.to) = pre_balance_of(last.to) + last.amount
        /\ \A a \in Accounts \ {last.caller, last.to} :
              balance_of(a) = pre_balance_of(a)
        /\ allowances = pre_allowances
        /\ total_supply = pre_total_supply

\* C6's case: a positive amount has been transferred to another account that
\* already held something.
C6_Witness ==
    /\ last.op = "transfer"
    /\ last.result = Ok
    /\ last.caller # last.to
    /\ last.amount > 0
    /\ pre_balance_of(last.to) > 0

\* C7. approve(spender, amount) by caller o sets allowance(o, spender) to
\* exactly amount whatever it was before: after approve(s, x) and then
\* approve(s, y) by the same caller, allowance(o, s) = y, not x + y.
C7_ApproveOverwrites ==
    last.op = "approve" => allowance(last.caller, last.spender) = last.amount

\* C7's case: an allowance that was not zero has been approved again, with
\* another positive amount.
C7_Witness ==
    /\ last.op = "approve"
    /\ pre_allowance(last.caller, last.spender) > 0
    /\ last.amount > 0
    /\ last.amount # pre_allowance(last.caller, last.spender)

\* C8. total_supply() returns the value passed to new in every reachable
\* state: no call of transfer, approve or transfer_from, successful or
\* failed, changes it.
C8_TotalSupplyFixed == total_supply = initial_supply

\* C8's case: calls have been made, the last one a successful transfer of a
\* positive amount, and the supply is the constructor's argument.
C8_Witness ==
    /\ ncalls = MaxCalls
    /\ last.op = "transfer"
    /\ last.result = Ok
    /\ last.amount > 0
    /\ total_supply = initial_supply

\* C9. Immediately after new(S) called by minter m: total_supply() = S,
\* balance_of(m) = S, balance_of(x) = 0 for every account x # m, and
\* allowance(o, s) = 0 for every pair (o, s).
C9_Construction ==
    last.op = "new" =>
        /\ total_supply = last.amount
        /\ balance_of(last.caller) = last.amount
        /\ \A x \in Accounts \ {last.caller} : balance_of(x) = 0
        /\ \A o \in Accounts, s \in Accounts : allowance(o, s) = 0

\* C9's case: the contract has just been constructed with a positive supply.
C9_Witness ==
    /\ last.op = "new"
    /\ ncalls = 0
    /\ last.amount > 0
    /\ balance_of(minter) = last.amount

\* C10. Self-transfer is a no-op: transfer(a, amount) called by a itself with
\* balance_of(a) >= amount returns Ok and leaves balance_of(a), every other
\* balance and every allowance unchanged.
C10_SelfTransferNoOp ==
    (/\ last.op = "transfer"
     /\ last.to = last.caller
     /\ pre_balance_of(last.caller) >= last.amount)
    => (/\ last.result = Ok
        /\ BalancesUnchanged
        /\ allowances = pre_allowances)

\* C10's case: an account has transferred a positive amount to itself.
C10_Witness ==
    /\ last.op = "transfer"
    /\ last.to = last.caller
    /\ last.amount > 0
    /\ pre_balance_of(last.caller) >= last.amount


\* C11. Error precedence in transfer_from: when both allowance(from, caller)
\* < amount and balance_of(from) < amount, the error returned is
\* InsufficientAllowance, never InsufficientBalance; transfer_from returns
\* InsufficientBalance only when the allowance is sufficient.
C11_ErrorPrecedence ==
    last.op = "transfer_from" =>
        /\ (/\ pre_allowance(last.from, last.caller) < last.amount
            /\ pre_balance_of(last.from) < last.amount)
           => last.result = InsufficientAllowance
        /\ last.result = InsufficientBalance
           => pre_allowance(last.from, last.caller) >= last.amount

\* C11's case: a delegated transfer that neither the allowance nor the
\* owner's balance covers has been tried, by a spender with some allowance.
C11_Witness ==
    /\ last.op = "transfer_from"
    /\ pre_allowance(last.from, last.caller) < last.amount
    /\ pre_balance_of(last.from) < last.amount
    /\ pre_allowance(last.from, last.caller) > 0
    /\ last.result = InsufficientAllowance

\* The Approval events among the events of the last call.
ApprovalEvents == SelectSeq(last.events, LAMBDA e : e.event = "Approval")

\* C12. Every successful transfer and every successful transfer_from emits
\* exactly one Transfer event, whose from is the debited account (the caller
\* for transfer, `from` for transfer_from), whose to is the recipient and
\* whose value is amount; a failed transfer or transfer_from emits no event.
C12_TransferEventEmitted ==
    /\ last.op = "transfer" =>
          last.events = IF last.result = Ok
                        THEN <<Transfer(last.caller, last.to, last.amount)>>
                        ELSE <<>>
    /\ last.op = "transfer_from" =>
          last.events = IF last.result = Ok
                        THEN <<Transfer(last.from, last.to, last.amount)>>
                        ELSE <<>>


\* C13. Every approve(spender, amount) by caller o emits exactly one Approval
\* event, with owner = o, spender = spender and amount = amount, together
\* with (never without) the allowance write; no other operation emits an
\* Approval event.
C13_ApprovalEventEmitted ==
    /\ last.op = "approve" =>
          /\ last.events = <<Approval(last.caller, last.spender, last.amount)>>
          /\ allowance(last.caller, last.spender) = last.amount
    /\ last.op # "approve" => ApprovalEvents = <<>>

\* C13's case: an account has approved another account for a positive amount
\* and the event of that approval is out.
C13_Witness ==
    /\ last.op = "approve"
    /\ last.caller # last.spender
    /\ last.amount > 0
    /\ Len(ApprovalEvents) = 1

\* C15. approve never fails and has no precondition: for any caller, spender
\* and amount (a caller with balance 0, an amount above the caller's balance
\* or above total_supply, and spender = caller included) it returns Ok, and it
\* leaves every balance, total_supply and every allowance entry other than
\* (caller, spender) unchanged.
C15_ApproveNeverFails ==
    last.op = "approve" =>
        /\ last.result = Ok
        /\ balances = pre_balances
        /\ total_supply = pre_total_supply
        /\ \A o \in Accounts, s \in Accounts :
              <<o, s>> # <<last.caller, last.spender>>
              => allowance(o, s) = pre_allowance(o, s)

\* C15's case: an account that holds nothing has approved itself for more
\* than the total supply, while another allowance entry was in place.
C15_Witness ==
    /\ last.op = "approve"
    /\ last.spender = last.caller
    /\ pre_balance_of(last.caller) = 0
    /\ last.amount > total_supply
    /\ \E o \in Accounts, s \in Accounts :
          /\ <<o, s>> # <<last.caller, last.spender>>
          /\ allowance(o, s) > 0


\* C18. Authorization of debits: in any step, balance_of(o) decreases only if
\* the step is a transfer called by o itself, or a transfer_from(o, to,
\* amount) called by some c with allowance(o, c) >= amount immediately before
\* the step.
C18_DebitsAuthorized ==
    \A o \in Accounts :
        balance_of(o) < pre_balance_of(o) =>
            \/ last.op = "transfer" /\ last.caller = o
            \/ /\ last.op = "transfer_from"
               /\ last.from = o
               /\ pre_allowance(o, last.caller) >= last.amount

\* C18's case: the balance of an owner has been reduced by a call of another
\* account, a spender the owner had approved.
C18_Witness ==
    \E o \in Accounts :
        /\ balance_of(o) < pre_balance_of(o)
        /\ last.op = "transfer_from"
        /\ last.caller # o
        /\ last.from = o
        /\ pre_allowance(o, last.caller) >= last.amount

\* C19. Allowance entries change only through their own owner or spender: in
\* any step, allowance(o, s) changes only if the step is approve(s, _) called
\* by o, or a successful transfer_from(o, _, _) called by s; transfer changes
\* no allowance, transfer_from changes no pair other than (from, caller), and
\* allowance(o, s) increases only by an approve called by o.
C19_AllowanceChanges ==
    \A o \in Accounts, s \in Accounts :
        /\ allowance(o, s) # pre_allowance(o, s) =>
              \/ /\ last.op = "approve"
                 /\ last.caller = o
                 /\ last.spender = s
              \/ /\ last.op = "transfer_from"
                 /\ last.result = Ok
                 /\ last.from = o
                 /\ last.caller = s
        /\ allowance(o, s) > pre_allowance(o, s) =>
              /\ last.op = "approve"
              /\ last.caller = o
              /\ last.spender = s

\* C19's case: a successful delegated transfer has reduced the allowance of
\* its spender, and the reverse pair (caller, from) is as it was.
C19_Witness ==
    /\ last.op = "transfer_from"
    /\ last.result = Ok
    /\ last.caller # last.from
    /\ allowance(last.from, last.caller)
          < pre_allowance(last.from, last.caller)
    /\ allowance(last.caller, last.from)
          = pre_allowance(last.caller, last.from)


\* C14. Default zero: in every reachable state balance_of(a) returns 0 for
\* any account a that is not the minter and has never been the recipient of a
\* successful transfer or transfer_from, and allowance(o, s) returns 0 for
\* any pair (o, s) for which o has never called approve with spender s.
C14_DefaultZero ==
    /\ \A a \in Accounts :
          (a # minter /\ a \notin recipients) => balance_of(a) = 0
    /\ \A o \in Accounts, s \in Accounts :
          <<o, s>> \notin DOMAIN granted => allowance(o, s) = 0

\* C14's case: an account that never received anything and a pair that was
\* never approved have both been written to storage by calls with amount 0,
\* and still read as 0.
C14_Witness ==
    /\ \E a \in DOMAIN balances :
          a # minter /\ a \notin recipients /\ balance_of(a) = 0
    /\ \E p \in DOMAIN allowances :
          p \notin DOMAIN granted /\ allowance(p[1], p[2]) = 0

C17_NoOverflow ==
    /\ last.result # Panic
    /\ \A e \in last.arith :
          /\ e.expr \in {"sender_balance - amount", "allowance - amount"}
             => e.value >= 0
          /\ e.expr = "to_balance + amount"
             => (e.value <= MaxBalance /\ e.value <= total_supply)

\* C17's case: a delegated transfer has evaluated all three expressions, the
\* sum reaching the largest Balance and the difference reaching 0.
C17_Witness ==
    /\ last.op = "transfer_from"
    /\ last.result = Ok
    /\ Evaluated("to_balance + amount", MaxBalance) \in last.arith
    /\ Evaluated("sender_balance - amount", 0) \in last.arith
    /\ Evaluated("allowance - amount", 0) \in last.arith

====
